---- MODULE Spec2Model ----
(***************************************************************************)
(* Model of the active-regions script (src/answer3.py): three adapters     *)
(* that each turn the outcome of their API calls into a (region set,       *)
(* status) pair, and main, which calls them in sequence, unions the sets   *)
(* and prints the report.                                                  *)
(* The instance-type listing script (src/answer1.py) and the optimizer     *)
(* script (src/answer5.py) follow, each with its own next-state relation   *)
(* and specification over its own variables.                               *)
(***************************************************************************)
EXTENDS Integers, Sequences, FiniteSets, TLC

VARIABLES pc, cost_regions, cost_status, resource_regions, resource_status,
          config_regions, config_status, active_regions, all_regions, idx,
          all_active_regions, out, ceGroups, ceOutcome, resOutcome,
          searchCalls, cfgTop, cfgOutcome, cfgEnumerated, resYielded,
          types_pc, regions_list, region_idx, csvfile, instance_types, typesFailed,
          typesOffered, typesRepeated, typesLastFailed, types_page,
          opt_pc, low_util_ec2, idle_rds, unused_lambdas, unused_buckets, console,
          s3Outcome, s3Listed, s3Inspected

\* The state of the active-regions script (src/answer3.py).
reconcilerVars == <<pc, cost_regions, cost_status, resource_regions, resource_status,
          config_regions, config_status, active_regions, all_regions, idx,
          all_active_regions, out, ceGroups, ceOutcome, resOutcome,
          searchCalls, cfgTop, cfgOutcome, cfgEnumerated, resYielded>>

\* The state of the instance-type listing script (src/answer1.py).
typesVars == <<types_pc, regions_list, region_idx, csvfile, instance_types, typesFailed,
               typesOffered, typesRepeated, typesLastFailed, types_page>>

\* The state of the optimizer script (src/answer5.py).
optimizerVars == <<opt_pc, low_util_ec2, idle_rds, unused_lambdas, unused_buckets,
                   console, s3Outcome, s3Listed, s3Inspected>>

vars == <<reconcilerVars, typesVars, optimizerVars>>

(* ------------------------------ bounds --------------------------------- *)
MaxBuckets == 2
MaxGroups == 1
MaxPages == 2
MaxResources == 1
MaxEnumerated == 2
MaxCount == 1

(* ------------------------------ values --------------------------------- *)
Regions == {"ap-south-1", "eu-west-1", "us-east-1"}

\* The place of each region identifier in the alphabetical list of Regions;
\* the services are taken to list regions and region keys in this order.
RegionRank(r) == CASE r = "ap-south-1" -> 1 [] r = "eu-west-1" -> 2 [] r = "us-east-1" -> 3
RegionBefore(a, b) == RegionRank(a) < RegionRank(b)

\* The Amount strings of a cost report, as their characters; <<>> is the empty
\* string, which float() rejects.
Amounts == { <<"0">>, <<"0", ".", "0", "1">>, <<"-", "1", ".", "5">>, <<>> }

ErrorCodes == {"AccessDeniedException", "ThrottlingException"}

NoExc == [type |-> "None", code |-> "", message |-> "", text |-> <<>>]

\* botocore's ClientError: e.response['Error'] carries Code and Message, and
\* str(e) names both.
ClientError(code) ==
    [type |-> "ClientError", code |-> code, message |-> "denied",
     text |-> <<"An error occurred (", code, "): ", "denied">>]

\* Any other exception class (a transport failure, a KeyError, a ValueError).
OtherError(cls, msg) ==
    [type |-> cls, code |-> "", message |-> "", text |-> <<msg>>]

Excs == {ClientError(c) : c \in ErrorCodes}
           \cup {OtherError("EndpointConnectionError", "Could not connect")}

BoundedSeq(S, n) == UNION {[1..k -> S] : k \in 0..n}

Success == <<"Success">>
Unset == <<>>

(* ------------------------- exception dispatch -------------------------- *)
\* isinstance(e, cls) for the classes the except clauses name.
Catches(cls, e) == cls = "Exception" \/ e.type = cls

\* The index of the first except clause that catches e, 0 when none does.
Dispatch(handlers, e) ==
    LET hit == {i \in 1..Len(handlers) : Catches(handlers[i], e)}
    IN  IF hit = {} THEN 0 ELSE CHOOSE i \in hit : \A j \in hit : i <= j

Returned(regions, status) ==
    [regions |-> regions, status |-> status, escaped |-> FALSE]

Escaped == [regions |-> {}, status |-> Unset, escaped |-> TRUE]

OuterHandlersNoGeneric == <<"ClientError">>

\* except ClientError ... except Exception, the clauses of every adapter.
OuterHandlers == <<"ClientError", "Exception">>

InnerHandlersValueError == <<"ValueError">>

\* except ClientError, the only clause of the per-region try.
InnerHandlers == <<"ClientError">>

\* What an adapter returns when exception e reaches its outer try.
AdapterExcept(prefix, e) ==
    LET k == Dispatch(OuterHandlers, e)
    IN  CASE k = 1 -> Returned({}, <<prefix, e.code, " - ", e.message>>)
          [] k = 2 -> Returned({}, <<prefix>> \o e.text)
          [] OTHER -> Escaped

CostExcept(e) == AdapterExcept("Cost Explorer Error: ", e)

ResourceExceptKeeps(e, collected) ==
    LET r == AdapterExcept("Resource Explorer Error: ", e)
    IN  [r EXCEPT !.regions = collected]

\* collected is the local active_regions at the time of the failure.
ResourceExcept(e, collected) == AdapterExcept("Resource Explorer Error: ", e)

ConfigExcept(e) == AdapterExcept("Config Error: ", e)

(* ------------------------------ float() -------------------------------- *)
Digits == {"0", "1", "2", "3", "4", "5", "6", "7", "8", "9"}

Digit(c) ==
    CASE c = "0" -> 0 [] c = "1" -> 1 [] c = "2" -> 2 [] c = "3" -> 3
      [] c = "4" -> 4 [] c = "5" -> 5 [] c = "6" -> 6 [] c = "7" -> 7
      [] c = "8" -> 8 [] c = "9" -> 9

RECURSIVE DigitsValue(_)
DigitsValue(s) ==
    IF s = <<>> THEN 0 ELSE 10 * DigitsValue(SubSeq(s, 1, Len(s) - 1)) + Digit(s[Len(s)])

RECURSIVE Pow10(_)
Pow10(n) == IF n = 0 THEN 1 ELSE 10 * Pow10(n - 1)

\* Decimal places kept by the model's numbers: a value is an integer count of
\* 10^-Scale.
Scale == 2

\* float(s) for a plain decimal string: [valid, value], value in units of
\* 10^-Scale; valid is FALSE where float() raises ValueError.
ParseFloat(s) ==
    LET neg  == s # <<>> /\ s[1] = "-"
        body == IF neg THEN SubSeq(s, 2, Len(s)) ELSE s
        dots == {i \in 1..Len(body) : body[i] = "."}
        dot  == IF dots = {} THEN Len(body) + 1 ELSE CHOOSE i \in dots : TRUE
        ip   == SubSeq(body, 1, dot - 1)
        fp   == SubSeq(body, dot + 1, Len(body))
        ok   == /\ Cardinality(dots) <= 1
                /\ Len(ip) + Len(fp) > 0
                /\ Len(fp) <= Scale
                /\ \A i \in 1..Len(ip) : ip[i] \in Digits
                /\ \A i \in 1..Len(fp) : fp[i] \in Digits
        mag  == DigitsValue(ip) * Pow10(Scale) + DigitsValue(fp) * Pow10(Scale - Len(fp))
    IN  IF ok THEN [valid |-> TRUE, value |-> IF neg THEN 0 - mag ELSE mag]
        ELSE [valid |-> FALSE, value |-> 0]

(* ---------------------- cost explorer adapter -------------------------- *)
Group(region, amount) ==
    [Keys |-> <<region>>, Metrics |-> [UnblendedCost |-> [Amount |-> amount]]]

\* One time bucket: at most MaxGroups groups, one per region key (the report
\* is grouped by REGION), listed by ascending key: the comprehension builds a
\* set, so the order of the groups of a bucket does not reach its result.
GroupLists ==
    {g \in BoundedSeq({Group(r, a) : r \in Regions, a \in Amounts}, MaxGroups) :
        \A i, j \in 1..Len(g) : i < j => RegionBefore(g[i].Keys[1], g[j].Keys[1])}

CEResponses ==
    {[ResultsByTime |-> b] : b \in BoundedSeq({[Groups |-> g] : g \in GroupLists}, MaxBuckets)}

\* The groups of a response in the order the comprehension visits them.
RECURSIVE Flatten(_)
Flatten(results) ==
    IF results = <<>> THEN <<>> ELSE Head(results).Groups \o Flatten(Tail(results))

AmountOf(group) == group.Metrics.UnblendedCost.Amount

IsActiveGroupNonNegative(group) == ParseFloat(AmountOf(group)).value >= 0

\* The filter of the comprehension: float(Amount) > 0.
IsActiveGroup(group) == ParseFloat(AmountOf(group)).value > 0

\* The set comprehension of lines 29-34: the key of every group that passes
\* the filter, or the ValueError of the first Amount float() rejects.
RECURSIVE Comprehension(_, _)
Comprehension(groups, acc) ==
    IF groups = <<>> THEN [exc |-> NoExc, regions |-> acc]
    ELSE LET g == Head(groups)
         IN  IF ~ParseFloat(AmountOf(g)).valid
             THEN [exc |-> OtherError("ValueError", "could not convert string to float"),
                   regions |-> {}]
             ELSE Comprehension(Tail(groups),
                                IF IsActiveGroup(g) THEN acc \cup {g.Keys[1]} ELSE acc)

\* o is the outcome of boto3.client('ce') and get_cost_and_usage: the exception
\* raised, or the response.
get_active_regions_from_cost_explorer(o) ==
    IF o.exc # NoExc THEN CostExcept(o.exc)
    ELSE LET c == Comprehension(Flatten(o.response.ResultsByTime), {})
         IN  IF c.exc # NoExc THEN CostExcept(c.exc)
             ELSE Returned(c.regions, Success)

CEOutcomes ==
    {[exc |-> e, response |-> [ResultsByTime |-> <<>>]] : e \in Excs}
      \cup {[exc |-> NoExc, response |-> r] : r \in CEResponses}

OutcomeKind(e) ==
    CASE e = NoExc -> "ok" [] e.type = "ClientError" -> "client" [] OTHER -> "other"

(* -------------------- resource explorer adapter ------------------------ *)
NoIndexStatus ==
    <<"No Resource Explorer indexes found. Please set up Resource Explorer first.">>

\* One entry of list_indexes()['Indexes']; hasRegion is FALSE for an entry
\* without the 'Region' key.
Index(hasRegion, region) == [hasRegion |-> hasRegion, Region |-> region]

\* Outcomes of lines 47-57: exc is raised by the first client or list_indexes,
\* clientExc by the client of the primary region.
IndexOutcomes ==
    {[exc |-> e, Indexes |-> <<>>, clientExc |-> NoExc] : e \in Excs}
      \cup {[exc |-> NoExc, Indexes |-> <<>>, clientExc |-> NoExc]}
      \cup {[exc |-> NoExc, Indexes |-> <<Index(FALSE, "")>>, clientExc |-> NoExc]}
      \cup {[exc |-> NoExc, Indexes |-> <<Index(TRUE, r)>>, clientExc |-> e] :
              r \in Regions,
              e \in {NoExc, OtherError("EndpointConnectionError", "Could not connect")}}

NoIndexesNever(indexes) == FALSE

\* Line 50: not indexes['Indexes'].
NoIndexes(indexes) == indexes = <<>>

\* Lines 46-57: ret says whether the adapter has returned; otherwise the
\* pagination starts with an empty active_regions.
resource_explorer_begin(o) ==
    IF o.exc # NoExc
    THEN [ret |-> TRUE, result |-> ResourceExcept(o.exc, {})]
    ELSE IF NoIndexes(o.Indexes)
    THEN [ret |-> TRUE, result |-> Returned({}, NoIndexStatus)]
    ELSE IF Len(o.Indexes) = 0
    THEN [ret |-> TRUE,
          result |-> ResourceExcept(OtherError("IndexError", "list index out of range"), {})]
    ELSE IF ~o.Indexes[1].hasRegion
    THEN [ret |-> TRUE, result |-> ResourceExcept(OtherError("KeyError", "'Region'"), {})]
    ELSE IF o.clientExc # NoExc
    THEN [ret |-> TRUE, result |-> ResourceExcept(o.clientExc, {})]
    ELSE [ret |-> FALSE, result |-> Returned({}, Unset)]

\* One record of page['Resources']; hasRegion is the test 'Region' in resource.
Resource(hasRegion, region) == [hasRegion |-> hasRegion, Region |-> region]

ResourceValues == {Resource(TRUE, r) : r \in Regions} \cup {Resource(FALSE, "")}

\* Outcomes of one search call: an exception, or a page and whether a
\* NextToken follows it. more is offered while fewer than MaxPages were read.
PageOutcomes(calls) ==
    {[exc |-> e, Resources |-> <<>>, more |-> FALSE] : e \in Excs}
      \cup {[exc |-> NoExc, Resources |-> rs, more |-> m] :
              rs \in BoundedSeq(ResourceValues, MaxResources),
              m \in {b \in BOOLEAN : b => calls + 1 < MaxPages}}

\* The inner loop of lines 63-65.
RECURSIVE AddRegions(_, _)
AddRegions(resources, acc) ==
    IF resources = <<>> THEN acc
    ELSE AddRegions(Tail(resources),
                    IF Head(resources).hasRegion THEN acc \cup {Head(resources).Region}
                    ELSE acc)

\* One iteration of the paginate loop (lines 59-67), given the local
\* active_regions collected so far.
resource_explorer_page(o, collected) ==
    IF o.exc # NoExc
    THEN [ret |-> TRUE, result |-> ResourceExcept(o.exc, collected),
          collected |-> collected]
    ELSE LET now == AddRegions(o.Resources, collected)
         IN  IF o.more
             THEN [ret |-> FALSE, result |-> Returned({}, Unset), collected |-> now]
             ELSE [ret |-> TRUE, result |-> Returned(now, Success), collected |-> now]

(* --------------------------- config adapter ---------------------------- *)
\* describe_regions()['Regions'] as the list of its RegionName values: at most
\* MaxEnumerated regions, none twice, in the order the service lists them.
RegionLists ==
    {s \in BoundedSeq(Regions, MaxEnumerated) :
        \A i, j \in 1..Len(s) : i < j => RegionBefore(s[i], s[j])}

EnumOutcomes ==
    {[exc |-> e, regions |-> <<>>] : e \in Excs}
      \cup {[exc |-> NoExc, regions |-> s] : s \in RegionLists}

\* Outcomes of the body of the per-region try (lines 85-91): the exception of
\* the regional client, of describe_configuration_recorders or of
\* get_discovered_resource_counts, or the values they return.
RegionOutcome(clientExc, recExc, recorders, cntExc, total) ==
    [clientExc |-> clientExc, recExc |-> recExc, recorders |-> recorders,
     cntExc |-> cntExc, total |-> total]

RegionOutcomes ==
    {RegionOutcome(OtherError("EndpointConnectionError", "Could not connect"),
                   NoExc, <<>>, NoExc, 0)}
      \cup {RegionOutcome(NoExc, e, <<>>, NoExc, 0) : e \in Excs}
      \cup {RegionOutcome(NoExc, NoExc, <<>>, NoExc, 0)}
      \cup {RegionOutcome(NoExc, NoExc, <<"default">>, e, 0) : e \in Excs}
      \cup {RegionOutcome(NoExc, NoExc, <<"default">>, NoExc, n) : n \in 0..MaxCount}

\* The exception the try body raises, NoExc when it completes.
TryBodyExc(o) ==
    IF o.clientExc # NoExc THEN o.clientExc
    ELSE IF o.recExc # NoExc THEN o.recExc
    ELSE IF o.recorders # <<>> /\ o.cntExc # NoExc THEN o.cntExc
    ELSE NoExc

\* Lines 88-91: a recorder exists and TotalDiscoveredResources > 0.
IsActiveCount(o) == o.recorders # <<>> /\ o.total > 0

SkipLine(region, e) == [text |-> <<"Skipping region ", region, ": ">> \o e.text, n |-> -1]

\* One iteration of the per-region loop (lines 83-96): add, the region joins
\* active_regions; log, the lines printed; exc, the exception that leaves
\* the inner try uncaught (NoExc when the loop goes on).
check_region(region, o) ==
    LET e == TryBodyExc(o)
    IN  IF e = NoExc
        THEN [add |-> IsActiveCount(o), log |-> <<>>, exc |-> NoExc]
        ELSE IF Dispatch(InnerHandlers, e) = 1
        THEN IF e.code # "AccessDeniedException"
             THEN [add |-> FALSE, log |-> <<SkipLine(region, e)>>, exc |-> NoExc]
             ELSE [add |-> FALSE, log |-> <<>>, exc |-> NoExc]
        ELSE [add |-> FALSE, log |-> <<>>, exc |-> e]

(* ------------------------------- sorted -------------------------------- *)
\* The characters of each region identifier.
RegionChars(r) ==
    CASE r = "ap-south-1" -> <<"a", "p", "-", "s", "o", "u", "t", "h", "-", "1">>
      [] r = "eu-west-1"  -> <<"e", "u", "-", "w", "e", "s", "t", "-", "1">>
      [] r = "us-east-1"  -> <<"u", "s", "-", "e", "a", "s", "t", "-", "1">>

\* ord(c), the code point str comparison uses.
Ord(c) ==
    CASE c = "-" -> 45  [] c = "1" -> 49  [] c = "a" -> 97  [] c = "e" -> 101
      [] c = "h" -> 104 [] c = "o" -> 111 [] c = "p" -> 112 [] c = "s" -> 115
      [] c = "t" -> 116 [] c = "u" -> 117 [] c = "w" -> 119
      [] c = "." -> 46  [] c = "2" -> 50  [] c = "5" -> 53  [] c = "c" -> 99
      [] c = "g" -> 103 [] c = "i" -> 105 [] c = "l" -> 108 [] c = "m" -> 109
      [] c = "r" -> 114

\* a < b for Python strings: the first differing code point decides, a proper
\* prefix is smaller.
RECURSIVE CharsLess(_, _)
CharsLess(a, b) ==
    IF b = <<>> THEN FALSE
    ELSE IF a = <<>> THEN TRUE
    ELSE IF Ord(Head(a)) # Ord(Head(b)) THEN Ord(Head(a)) < Ord(Head(b))
    ELSE CharsLess(Tail(a), Tail(b))

StrLessReversed(a, b) == CharsLess(RegionChars(b), RegionChars(a))

StrLess(a, b) == CharsLess(RegionChars(a), RegionChars(b))

\* sorted(S) of a set of strings: the list of the elements of S in which each
\* stands after exactly the elements smaller than it.
sorted(S) ==
    [i \in 1..Cardinality(S) |->
        CHOOSE x \in S : Cardinality({y \in S : StrLess(y, x)}) = i - 1]

(* -------------------------------- main --------------------------------- *)
Line(text) == [text |-> text, n |-> -1]
CountLine(label, n) == [text |-> <<label>>, n |-> n]

Rule50 == "--------------------------------------------------"
NoRegionsText == "No active regions found or insufficient permissions."

\* Lines 107-109.
HeaderLines ==
    << Line(<<"Checking permissions and fetching active regions...">>),
       Line(<<"\nPermission Check Results:">>),
       Line(<<Rule50>>) >>

\* Lines 115-117.
StatusLines(cs, rs, gs) ==
    << Line(<<"Cost Explorer Status: ">> \o cs),
       Line(<<"Resource Explorer Status: ">> \o rs),
       Line(<<"AWS Config Status: ">> \o gs) >>

UnionDropsConfig(c, r, g) == c \cup r

UnionStopsAtEmpty(c, r, g) == IF r = {} THEN {} ELSE (c \cup r) \cup g

\* Line 119.
Union(c, r, g) == (c \cup r) \cup g

RegionLine(r) == Line(<<r>>)

\* The loop of lines 127-128: one line per element, in order.
PrintEach(seq) == [i \in 1..Len(seq) |-> RegionLine(seq[i])]

\* Lines 121-128.
RegionLines(all) ==
    << Line(<<"\nRegions with active resources or billing:">>), Line(<<Rule50>>) >>
      \o (IF all = {} THEN << Line(<<NoRegionsText>>) >> ELSE PrintEach(sorted(all)))

\* Lines 130-134.
SummaryLines(all, c, r, g) ==
    << Line(<<"\nSummary:">>),
       CountLine("Total active regions found: ", Cardinality(all)),
       CountLine("Regions from Cost Explorer: ", Cardinality(c)),
       CountLine("Regions from Resource Explorer: ", Cardinality(r)),
       CountLine("Regions from AWS Config: ", Cardinality(g)) >>

\* Lines 121-134, printed once line 119 has computed all.
ReportLines(all, c, r, g) == RegionLines(all) \o SummaryLines(all, c, r, g)

AfterAdapterSkipsConfig(name) ==
    CASE name = "cost" -> "resource" [] name = "resource" -> "status"
      [] name = "config" -> "status"

\* The statement of main that follows the call of each adapter (lines 111-115).
AfterAdapter(name) ==
    CASE name = "cost" -> "resource" [] name = "resource" -> "config"
      [] name = "config" -> "status"

\* Where main is once the adapter's call has ended: at its next statement, or
\* unwound by the exception that escaped the adapter.
Resume(name, result) == IF result.escaped THEN "crashed" ELSE AfterAdapter(name)

(* ------------------------------ history -------------------------------- *)
\* The groups a cost report lists, over all its time buckets.
GroupsOf(resp) ==
    UNION { {resp.ResultsByTime[i].Groups[j] : j \in 1..Len(resp.ResultsByTime[i].Groups)} :
              i \in 1..Len(resp.ResultsByTime) }

\* What the API calls made for one region showed, read off the outcome itself:
\* the region has a recorder and resources ("active"), none of them
\* ("inactive"), a permission denial ("denied"), another client error
\* ("clienterr") or an error of another class ("othererr").
Observed(o) ==
    LET first == IF o.clientExc # NoExc THEN o.clientExc
                 ELSE IF o.recExc # NoExc THEN o.recExc
                 ELSE IF o.recorders = <<>> THEN NoExc
                 ELSE o.cntExc
    IN  CASE first = NoExc -> IF Len(o.recorders) >= 1 /\ o.total >= 1 THEN "active"
                              ELSE "inactive"
          [] first # NoExc /\ first.type = "ClientError" ->
                 IF first.code = "AccessDeniedException" THEN "denied" ELSE "clienterr"
          [] OTHER -> "othererr"

\* What list_indexes and the client of the primary region showed.
ObservedList(o) ==
    IF o.exc # NoExc THEN OutcomeKind(o.exc)
    ELSE IF Len(o.Indexes) = 0 THEN "noindex"
    ELSE IF ~o.Indexes[1].hasRegion THEN "other"
    ELSE IF o.clientExc # NoExc THEN OutcomeKind(o.clientExc)
    ELSE "paging"

\* The regions the resources of one page name; none when the call raised.
RegionsOnPage(o) ==
    {o.Resources[i].Region : i \in {k \in 1..Len(o.Resources) : o.Resources[k].hasRegion}}

\* What one search call showed.
ObservedPage(o) ==
    IF o.exc # NoExc THEN OutcomeKind(o.exc) ELSE IF o.more THEN "paging" ELSE "ok"

(* ------------------------------ actions -------------------------------- *)
\* Each script is a program of its own; before it runs, its state is this.
InitTypes ==
    /\ types_pc = "start"
    /\ regions_list = <<>> /\ region_idx = 0
    /\ csvfile = <<>>
    /\ instance_types = <<>>
    /\ typesFailed = {} /\ typesOffered = {} /\ typesRepeated = FALSE
    /\ typesLastFailed = FALSE /\ types_page = 0

InitOptimizer ==
    /\ opt_pc = "start"
    /\ low_util_ec2 = 0 /\ idle_rds = 0 /\ unused_lambdas = 0
    /\ unused_buckets = <<>>
    /\ console = <<>>
    /\ s3Outcome = "none" /\ s3Listed = <<>> /\ s3Inspected = 0

Init ==
    /\ InitTypes
    /\ InitOptimizer
    /\ pc = "start"
    /\ cost_regions = {} /\ cost_status = Unset
    /\ resource_regions = {} /\ resource_status = Unset
    /\ config_regions = {} /\ config_status = Unset
    /\ active_regions = {} /\ all_regions = <<>> /\ idx = 0
    /\ all_active_regions = {}
    /\ out = <<>>
    /\ ceGroups = {}
    /\ ceOutcome = "none" /\ resOutcome = "none" /\ searchCalls = 0
    /\ cfgTop = "none" /\ cfgOutcome = [r \in Regions |-> "unchecked"]
    /\ cfgEnumerated = {}
    /\ resYielded = FALSE

\* main, lines 107-109.
MainStart ==
    /\ pc = "start"
    /\ out' = out \o HeaderLines
    /\ pc' = "cost"
    /\ UNCHANGED <<cost_regions, cost_status, resource_regions, resource_status,
                   config_regions, config_status, active_regions, all_regions, idx,
                   all_active_regions, ceGroups, ceOutcome, resOutcome,
                   searchCalls, cfgTop, cfgOutcome, cfgEnumerated, resYielded, typesVars, optimizerVars>>

\* main line 111: the call of get_active_regions_from_cost_explorer.
CostExplorer ==
    /\ pc = "cost"
    /\ \E o \in CEOutcomes :
         LET r == get_active_regions_from_cost_explorer(o)
         IN  /\ pc' = Resume("cost", r)
             /\ cost_regions' = IF r.escaped THEN cost_regions ELSE r.regions
             /\ cost_status' = IF r.escaped THEN cost_status ELSE r.status
             /\ ceGroups' = GroupsOf(o.response)
             /\ ceOutcome' = OutcomeKind(o.exc)
    /\ UNCHANGED <<resource_regions, resource_status, config_regions, config_status,
                   active_regions, all_regions, idx, all_active_regions, out,
                   resOutcome, searchCalls, cfgTop, cfgOutcome, cfgEnumerated, resYielded, typesVars, optimizerVars>>

\* main line 112, the adapter's lines 46-57.
ResListIndexes ==
    /\ pc = "resource"
    /\ \E o \in IndexOutcomes :
         LET b == resource_explorer_begin(o)
         IN  /\ resOutcome' = ObservedList(o)
             /\ pc' = IF b.ret THEN Resume("resource", b.result) ELSE "resource_pages"
             /\ resource_regions' =
                  IF b.ret /\ ~b.result.escaped THEN b.result.regions ELSE resource_regions
             /\ resource_status' =
                  IF b.ret /\ ~b.result.escaped THEN b.result.status ELSE resource_status
    /\ active_regions' = {}
    /\ ceGroups' = {}
    /\ UNCHANGED <<cost_regions, cost_status, config_regions, config_status,
                   all_regions, idx, all_active_regions, out, ceOutcome,
                   searchCalls, cfgTop, cfgOutcome, cfgEnumerated, resYielded, typesVars, optimizerVars>>

\* One search call of the paginator and the loop body on its page, lines 59-67.
ResSearchPage ==
    /\ pc = "resource_pages"
    /\ \E o \in PageOutcomes(searchCalls) :
         LET p == resource_explorer_page(o, active_regions)
         IN  /\ resOutcome' = ObservedPage(o)
             /\ pc' = IF p.ret THEN Resume("resource", p.result) ELSE "resource_pages"
             /\ resource_regions' =
                  IF p.ret /\ ~p.result.escaped THEN p.result.regions ELSE resource_regions
             /\ resource_status' =
                  IF p.ret /\ ~p.result.escaped THEN p.result.status ELSE resource_status
             /\ active_regions' = IF p.ret THEN {} ELSE p.collected
             /\ resYielded' = (resYielded \/ RegionsOnPage(o) # {})
    /\ searchCalls' = searchCalls + 1
    /\ UNCHANGED <<cost_regions, cost_status, config_regions, config_status,
                   all_regions, idx, all_active_regions, out, ceGroups, ceOutcome,
                   cfgTop, cfgOutcome, cfgEnumerated, typesVars, optimizerVars>>

\* main line 113, the adapter's lines 77-81.
CfgEnumerate ==
    /\ pc = "config"
    /\ \E o \in EnumOutcomes :
         LET r == ConfigExcept(o.exc)
             failed == o.exc # NoExc
         IN  /\ cfgTop' = OutcomeKind(o.exc)
             /\ pc' = IF failed THEN Resume("config", r) ELSE "config_loop"
             /\ config_regions' = IF failed /\ ~r.escaped THEN r.regions ELSE config_regions
             /\ config_status' = IF failed /\ ~r.escaped THEN r.status ELSE config_status
             /\ all_regions' = IF failed THEN <<>> ELSE o.regions
             /\ idx' = IF failed THEN 0 ELSE 1
             /\ cfgEnumerated' = {o.regions[i] : i \in 1..Len(o.regions)}
    /\ active_regions' = {}
    /\ UNCHANGED <<cost_regions, cost_status, resource_regions, resource_status,
                   all_active_regions, out, ceGroups, ceOutcome, resOutcome,
                   searchCalls, cfgOutcome, resYielded, typesVars, optimizerVars>>

\* One iteration of the per-region loop, lines 83-96, and the outer handlers
\* (lines 99-104) when its exception is not caught inside.
CfgCheckRegion ==
    /\ pc = "config_loop"
    /\ idx <= Len(all_regions)
    /\ \E o \in RegionOutcomes :
         LET region == all_regions[idx]
             c == check_region(region, o)
             r == ConfigExcept(c.exc)
             failed == c.exc # NoExc
         IN  /\ cfgOutcome' = [cfgOutcome EXCEPT ![region] = Observed(o)]
             /\ out' = out \o c.log
             /\ pc' = IF failed THEN Resume("config", r) ELSE "config_loop"
             /\ config_regions' = IF failed /\ ~r.escaped THEN r.regions ELSE config_regions
             /\ config_status' = IF failed /\ ~r.escaped THEN r.status ELSE config_status
             /\ active_regions' = IF failed THEN {}
                                  ELSE IF c.add THEN active_regions \cup {region}
                                  ELSE active_regions
             /\ all_regions' = IF failed THEN <<>> ELSE all_regions
             /\ idx' = IF failed THEN 0 ELSE idx + 1
    /\ UNCHANGED <<cost_regions, cost_status, resource_regions, resource_status,
                   all_active_regions, ceGroups, ceOutcome, resOutcome,
                   searchCalls, cfgTop, cfgEnumerated, resYielded, typesVars, optimizerVars>>

\* Line 98: the loop is over.
CfgReturn ==
    /\ pc = "config_loop"
    /\ idx > Len(all_regions)
    /\ config_regions' = active_regions
    /\ config_status' = Success
    /\ pc' = Resume("config", Returned(active_regions, Success))
    /\ active_regions' = {} /\ all_regions' = <<>> /\ idx' = 0
    /\ UNCHANGED <<cost_regions, cost_status, resource_regions, resource_status,
                   all_active_regions, out, ceGroups, ceOutcome, resOutcome,
                   searchCalls, cfgTop, cfgOutcome, cfgEnumerated, resYielded, typesVars, optimizerVars>>

\* main, lines 115-117.
MainStatus ==
    /\ pc = "status"
    /\ out' = out \o StatusLines(cost_status, resource_status, config_status)
    /\ pc' = "report"
    /\ UNCHANGED <<cost_regions, cost_status, resource_regions, resource_status,
                   config_regions, config_status, active_regions, all_regions, idx,
                   all_active_regions, ceGroups, ceOutcome, resOutcome,
                   searchCalls, cfgTop, cfgOutcome, cfgEnumerated, resYielded, typesVars, optimizerVars>>

\* main, lines 119-134.
MainReport ==
    /\ pc = "report"
    /\ all_active_regions' = Union(cost_regions, resource_regions, config_regions)
    /\ out' = out \o ReportLines(Union(cost_regions, resource_regions, config_regions),
                                cost_regions, resource_regions, config_regions)
    /\ pc' = "done"
    /\ UNCHANGED <<cost_regions, cost_status, resource_regions, resource_status,
                   config_regions, config_status, active_regions, all_regions, idx,
                   ceGroups, ceOutcome, resOutcome, searchCalls, cfgTop, cfgOutcome, cfgEnumerated, resYielded, typesVars, optimizerVars>>

Next ==
    \/ MainStart
    \/ CostExplorer
    \/ ResListIndexes
    \/ ResSearchPage
    \/ CfgEnumerate
    \/ CfgCheckRegion
    \/ CfgReturn
    \/ MainStatus
    \/ MainReport

Spec == Init /\ [][Next]_vars

TypeOK ==
    /\ pc \in {"start", "cost", "resource", "resource_pages", "config", "config_loop",
               "status", "report", "done", "crashed"}
    /\ cost_regions \subseteq Regions
    /\ resource_regions \subseteq Regions
    /\ config_regions \subseteq Regions
    /\ all_active_regions \subseteq Regions
    /\ searchCalls \in 0..MaxPages

(* ------------------------------- claims -------------------------------- *)
Done == pc = "done"
AfterCost == {"resource", "resource_pages", "config", "config_loop", "status", "report", "done"}
AfterResource == {"config", "config_loop", "status", "report", "done"}
AfterConfig == {"status", "report", "done"}

ErrorPrefixes == {"Cost Explorer Error: ", "Resource Explorer Error: ", "Config Error: "}

\* A status that reports an error with the provider's code and message.
CarriesCode(status) ==
    Len(status) = 4 /\ status[1] \in ErrorPrefixes /\ status[2] \in ErrorCodes

\* The regions the printed list shows, in the order printed.
PrintedRegions ==
    LET IsRegionLine(l) == Len(l.text) = 1 /\ l.text[1] \in Regions
        lines == SelectSeq(out, IsRegionLine)
    IN  [i \in 1..Len(lines) |-> lines[i].text[1]]

\* The numbers of the summary block, in the order printed.
PrintedCounts ==
    LET IsCountLine(l) == l.n # -1
        lines == SelectSeq(out, IsCountLine)
    IN  [i \in 1..Len(lines) |-> lines[i].n]

Printed(text) == \E i \in 1..Len(out) : out[i].text = text

ReportStarted ==
    \E i \in 1..Len(out) :
        out[i].text[1] \in {"Cost Explorer Status: ", "Resource Explorer Status: ",
                            "AWS Config Status: ",
                            "\nRegions with active resources or billing:", "\nSummary:"}

\* C1: once main has computed the aggregate, a region is in it exactly when
\* it is in the set returned by at least one of the three adapters.
C1_AggregateIsUnion ==
    Done => \A r \in Regions :
               r \in all_active_regions <=>
                  (r \in cost_regions \/ r \in resource_regions \/ r \in config_regions)

C1_Witness ==
    /\ Done
    /\ cost_regions = {"eu-west-1"}
    /\ resource_regions = {"us-east-1", "ap-south-1"}
    /\ config_regions = {"eu-west-1", "us-east-1"}
    /\ all_active_regions = Regions

\* C2: whatever the API calls do, no exception leaves an adapter: main is
\* never unwound, every adapter that has been called can take its next step,
\* and once main is past an adapter's call it holds that adapter's status
\* string and region set.
C2_NoExceptionEscapes ==
    /\ pc # "crashed"
    /\ pc \in {"cost", "resource", "resource_pages", "config", "config_loop"} => ENABLED Next
    /\ pc \in AfterCost => cost_status # Unset /\ cost_regions \subseteq Regions
    /\ pc \in AfterResource => resource_status # Unset /\ resource_regions \subseteq Regions
    /\ pc \in AfterConfig => config_status # Unset /\ config_regions \subseteq Regions

C2_Witness ==
    /\ Done
    /\ ceOutcome = "other"
    /\ resOutcome = "client" /\ searchCalls = MaxPages
    /\ cfgTop = "ok" /\ \E r \in Regions : cfgOutcome[r] = "othererr"

\* What the config adapter returns as a function of what its own API calls
\* showed.
ConfigResultOf(top, outcome) ==
    IF top = "ok" /\ \A r \in Regions : outcome[r] # "othererr"
    THEN {r \in Regions : outcome[r] = "active"}
    ELSE {}

\* C3: a result an adapter has returned is never changed by a later step; and
\* when the resource-index adapter has failed with an unstructured error, the
\* config adapter's set is still the one its own calls determine, and every
\* region of the billing and config sets is in the aggregate.
C3_FaultIsolation ==
    /\ [](Done /\ resOutcome = "other" =>
            /\ resource_status # Success /\ resource_regions = {}
            /\ config_regions = ConfigResultOf(cfgTop, cfgOutcome)
            /\ cost_regions \subseteq all_active_regions
            /\ config_regions \subseteq all_active_regions)
    /\ [][ /\ cost_status # Unset =>
                cost_regions' = cost_regions /\ cost_status' = cost_status
           /\ resource_status # Unset =>
                resource_regions' = resource_regions /\ resource_status' = resource_status
           /\ config_status # Unset =>
                config_regions' = config_regions /\ config_status' = config_status ]_vars

C3_Witness ==
    /\ Done
    /\ resOutcome = "other" /\ searchCalls = MaxPages
    /\ cost_regions = {"us-east-1"}
    /\ config_regions = {"ap-south-1"}
    /\ all_active_regions = {"us-east-1", "ap-south-1"}

\* C4: when the regions were enumerated, the recorder check or the count query
\* of some region was denied and no region raised an error of another class
\* than a client error, the adapter checks every enumerated region, returns
\* "Success" and returns exactly the regions that showed a recorder and a
\* positive resource count; a denied region is not among them.
C4_DeniedRegionSkipped ==
    ( /\ config_status # Unset
      /\ cfgTop = "ok"
      /\ \E r \in Regions : cfgOutcome[r] = "denied"
      /\ \A r \in Regions : cfgOutcome[r] # "othererr" )
    => /\ config_status = Success
       /\ \A r \in cfgEnumerated : cfgOutcome[r] # "unchecked"
       /\ config_regions = {r \in Regions : cfgOutcome[r] = "active"}
       /\ \A r \in Regions : cfgOutcome[r] = "denied" => r \notin config_regions

C4_Witness ==
    /\ config_status = Success
    /\ cfgEnumerated = {"ap-south-1", "us-east-1"}
    /\ cfgOutcome["ap-south-1"] = "denied"
    /\ cfgOutcome["us-east-1"] = "active"
    /\ config_regions = {"us-east-1"}

\* C5: when the regions were enumerated, any per-region error is skipped: the
\* adapter checks every enumerated region, returns "Success" and returns the
\* regions found active.
C5_AnyRegionErrorSkipped ==
    (config_status # Unset /\ cfgTop = "ok")
    => /\ config_status = Success
       /\ \A r \in cfgEnumerated : cfgOutcome[r] # "unchecked"
       /\ config_regions = {r \in Regions : cfgOutcome[r] = "active"}

\* The Amount string is a decimal number: digits, at least one, with at most
\* one point and an optional leading minus sign.
IsDecimal(amount) ==
    /\ \E i \in 1..Len(amount) : amount[i] \in Digits
    /\ \A i \in 1..Len(amount) : amount[i] \in Digits \cup {"."} \/ (i = 1 /\ amount[i] = "-")
    /\ Cardinality({i \in 1..Len(amount) : amount[i] = "."}) <= 1

\* The Amount string denotes a number above zero: no minus sign and a digit
\* other than 0.
DenotesPositive(amount) ==
    /\ amount # <<>>
    /\ amount[1] # "-"
    /\ \E i \in 1..Len(amount) : amount[i] \in (Digits \ {"0"})

\* C6: when the cost query answers and every Amount is a number, the billing
\* adapter returns "Success" and a region is in its set exactly when some
\* group of that region, in some time bucket, has an amount above zero.
C6_ZeroCostExcluded ==
    ( /\ pc = "resource"
      /\ ceOutcome = "ok"
      /\ \A g \in ceGroups : IsDecimal(AmountOf(g)) )
    => /\ cost_status = Success
       /\ \A r \in Regions :
            r \in cost_regions <=>
               \E g \in ceGroups : g.Keys[1] = r /\ DenotesPositive(AmountOf(g))

C6_Witness ==
    /\ pc = "resource"
    /\ cost_status = Success
    /\ Group("eu-west-1", <<"0">>) \in ceGroups
    /\ Group("us-east-1", <<"0", ".", "0", "1">>) \in ceGroups
    /\ cost_regions = {"us-east-1"}

\* C7: when list_indexes returns no index, no search call is ever made, the
\* adapter returns the empty set with a status that is neither "Success" nor
\* an error with a code, and main goes on to the config adapter and on to the
\* end of the report.
C7_NoIndexIsInformational ==
    resOutcome = "noindex"
    => /\ searchCalls = 0
       /\ resource_regions = {}
       /\ resource_status # Unset
       /\ resource_status # Success
       /\ resource_status[1] \notin ErrorPrefixes
       /\ ~CarriesCode(resource_status)
       /\ pc \in AfterResource
       /\ Done \/ ENABLED Next

C7_Witness ==
    /\ Done
    /\ resOutcome = "noindex"
    /\ cfgTop = "ok"
    /\ config_regions # {}
    /\ Printed(<<"Resource Explorer Status: ">> \o NoIndexStatus)

\* C8: main always has a next statement until the report is complete; and
\* when none of the three statuses is "Success" the report shows the three
\* statuses, the single 'no regions' line and no region, and four counts of 0.
C8_AlwaysCompletes ==
    /\ Done \/ ENABLED Next
    /\ (Done /\ cost_status # Success /\ resource_status # Success /\ config_status # Success)
       => /\ Printed(<<"Cost Explorer Status: ">> \o cost_status)
          /\ Printed(<<"Resource Explorer Status: ">> \o resource_status)
          /\ Printed(<<"AWS Config Status: ">> \o config_status)
          /\ Cardinality({i \in 1..Len(out) : out[i].text = <<NoRegionsText>>}) = 1
          /\ PrintedRegions = <<>>
          /\ PrintedCounts = <<0, 0, 0, 0>>

C8_Witness ==
    /\ Done
    /\ CarriesCode(cost_status)
    /\ resOutcome = "other" /\ searchCalls = MaxPages
    /\ cfgTop = "ok" /\ config_status # Success
    /\ \E r \in Regions : cfgOutcome[r] = "active"

\* C9: the printed region list holds every region of the aggregate exactly
\* once, in strictly ascending lexicographic order.
C9_SortedRegionList ==
    Done => /\ Len(PrintedRegions) = Cardinality(all_active_regions)
            /\ {PrintedRegions[i] : i \in 1..Len(PrintedRegions)} = all_active_regions
            /\ \A i, j \in 1..Len(PrintedRegions) :
                 i < j => RegionRank(PrintedRegions[i]) < RegionRank(PrintedRegions[j])

C9_Witness ==
    /\ Done
    /\ cost_regions = {"us-east-1", "eu-west-1"}
    /\ resource_regions = {"us-east-1", "ap-south-1"}
    /\ config_regions = {}
    /\ config_status = Success
    /\ PrintedRegions = <<"ap-south-1", "eu-west-1", "us-east-1">>
    /\ PrintedCounts = <<3, 2, 2, 0>>

\* C10: the resource-index adapter starts only after the billing adapter has
\* returned, the config adapter only after the resource-index adapter has, and
\* no status line, region list, summary or aggregate exists before all three
\* have returned.
C10_ReportAfterAllAdapters ==
    /\ (pc \in {"resource", "resource_pages"} \/ resOutcome # "none") => cost_status # Unset
    /\ (pc \in {"config", "config_loop"} \/ cfgTop # "none")
          => cost_status # Unset /\ resource_status # Unset
    /\ (ReportStarted \/ all_active_regions # {} \/ pc \in {"report", "done"})
          => /\ cost_status # Unset /\ resource_status # Unset /\ config_status # Unset
             /\ ceOutcome # "none" /\ resOutcome \notin {"none", "paging"} /\ cfgTop # "none"
             /\ pc \in {"report", "done"}

C10_Witness ==
    /\ pc = "status"
    /\ ~ReportStarted
    /\ cost_status = Success /\ resource_status = Success /\ config_status = Success
    /\ cost_regions # {} /\ resource_regions # {} /\ config_regions # {}
    /\ all_active_regions = {}

\* C12: an adapter that returns a status other than "Success" returns the
\* empty set, whatever it had collected before the failure; the failed source
\* adds nothing to the aggregate and its summary count is 0.
C12_FailureReturnsEmpty ==
    /\ cost_status \notin {Unset, Success} => cost_regions = {}
    /\ resource_status \notin {Unset, Success} => resource_regions = {}
    /\ config_status \notin {Unset, Success} => config_regions = {}
    /\ Done =>
         /\ cost_status # Success => PrintedCounts[2] = 0
         /\ resource_status # Success =>
              /\ PrintedCounts[3] = 0
              /\ all_active_regions = cost_regions \cup config_regions
         /\ config_status # Success =>
              /\ PrintedCounts[4] = 0
              /\ all_active_regions = cost_regions \cup resource_regions

C12_Witness ==
    /\ Done
    /\ CarriesCode(cost_status)
    /\ resOutcome \in {"client", "other"} /\ searchCalls = MaxPages /\ resYielded
    /\ resource_regions = {}
    /\ cfgTop = "ok"
    /\ \E r \in Regions : cfgOutcome[r] = "active"
    /\ \E r \in Regions : cfgOutcome[r] = "othererr"
    /\ config_regions = {}
    /\ PrintedCounts = <<0, 0, 0, 0>>

(***************************************************************************)
(* The instance-type listing script (src/answer1.py): for every region,    *)
(* the instance types offered there, each once and sorted, as CSV rows.    *)
(***************************************************************************)
MaxListed == 2
MaxTypePages == 2
MaxOfferings == 1

InstanceTypes == {"c5.large", "m5.large", "t2.micro"}

TypeChars(t) ==
    CASE t = "c5.large" -> <<"c", "5", ".", "l", "a", "r", "g", "e">>
      [] t = "m5.large" -> <<"m", "5", ".", "l", "a", "r", "g", "e">>
      [] t = "t2.micro" -> <<"t", "2", ".", "m", "i", "c", "r", "o">>

\* a < b for two instance type strings.
TypeLess(a, b) == CharsLess(TypeChars(a), TypeChars(b))

\* sorted(list): a stable sort; the element at i goes after the smaller ones
\* and after the equal ones that precede it.
sorted_list(seq) ==
    LET n == Len(seq)
        pos(i) == Cardinality({j \in 1..n : TypeLess(seq[j], seq[i])})
                    + Cardinality({j \in 1..(i - 1) : seq[j] = seq[i]}) + 1
    IN  [k \in 1..n |-> seq[CHOOSE i \in 1..n : pos(i) = k]]

AddTypeAsList(acc, t) == Append(acc, t)

\* instance_types.add(t) on the set, kept as the list of its distinct
\* elements.
AddType(acc, t) == IF \E i \in 1..Len(acc) : acc[i] = t THEN acc ELSE Append(acc, t)

Offering(t) == [InstanceType |-> t]

\* One page of describe_instance_type_offerings.
TypePages ==
    {[InstanceTypeOfferings |-> os] :
        os \in BoundedSeq({Offering(t) : t \in InstanceTypes}, MaxOfferings)}

\* The inner loop of lines 24-25 over the offerings of one page.
RECURSIVE CollectTypes(_, _)
CollectTypes(offerings, acc) ==
    IF offerings = <<>> THEN acc
    ELSE CollectTypes(Tail(offerings), AddType(acc, Head(offerings).InstanceType))

\* except Exception, line 28.
TypesHandlers == <<"Exception">>

\* What get_instance_types does with an exception raised in its try block:
\* lines 28-30 return [] when the clause catches it.
TypesExcept(e) ==
    IF Dispatch(TypesHandlers, e) = 1
    THEN [escaped |-> FALSE, types |-> <<>>]
    ELSE [escaped |-> TRUE, types |-> <<>>]

\* Outcomes of get_all_regions (lines 8-13), which main calls outside any try.
AllRegionsOutcomes ==
    {[exc |-> e, names |-> <<>>] : e \in Excs}
      \cup {[exc |-> NoExc, names |-> ns] : ns \in BoundedSeq(Regions, MaxListed)}

HeaderRow == <<"Region", "InstanceType">>

\* Lines 48-49.
RowsOf(region, types) == [i \in 1..Len(types) |-> <<region, types[i]>>]

\* main's loop body after get_instance_types has returned r for the current
\* region (lines 46-49), or the end of the run when the exception escaped.
TypesResume(r, failed) ==
    LET region == regions_list[region_idx]
    IN  /\ types_pc' = IF r.escaped THEN "crashed" ELSE "loop"
        /\ instance_types' = r.types
        /\ csvfile' = IF r.escaped THEN csvfile ELSE csvfile \o RowsOf(region, r.types)
        /\ region_idx' = IF r.escaped THEN region_idx ELSE region_idx + 1
        /\ typesFailed' = IF failed THEN typesFailed \cup {region} ELSE typesFailed
        /\ typesLastFailed' = failed

\* main, lines 34-40.
TypesOpen ==
    /\ types_pc = "start"
    /\ \E o \in AllRegionsOutcomes :
         /\ types_pc' = IF o.exc # NoExc THEN "crashed" ELSE "loop"
         /\ regions_list' = o.names
         /\ region_idx' = IF o.exc # NoExc THEN 0 ELSE 1
         /\ csvfile' = IF o.exc # NoExc THEN csvfile ELSE <<HeaderRow>>
    /\ UNCHANGED <<instance_types, typesFailed, typesOffered, typesRepeated,
                   typesLastFailed, types_page, reconcilerVars, optimizerVars>>

\* Lines 43-45 and 16-21: the next region, its client and paginator, and the
\* empty set.
TypesBegin ==
    /\ types_pc = "loop"
    /\ region_idx <= Len(regions_list)
    /\ typesOffered' = {} /\ typesRepeated' = FALSE /\ types_page' = 0
    /\ \E e \in Excs \cup {NoExc} :
         IF e = NoExc
         THEN /\ types_pc' = "paging"
              /\ instance_types' = <<>>
              /\ typesLastFailed' = FALSE
              /\ UNCHANGED <<csvfile, region_idx, typesFailed>>
         ELSE TypesResume(TypesExcept(e), TRUE)
    /\ UNCHANGED <<regions_list, reconcilerVars, optimizerVars>>

\* Lines 23-25: the paginator yields one more page, or raises.
TypesPage ==
    /\ types_pc = "paging"
    /\ types_page < MaxTypePages
    /\ \E o \in TypePages \cup Excs :
         IF o \in TypePages
         THEN LET os == o.InstanceTypeOfferings
                  named == {os[i].InstanceType : i \in 1..Len(os)}
              IN  /\ instance_types' = CollectTypes(os, instance_types)
                  /\ types_page' = types_page + 1
                  /\ typesRepeated' =
                        (\/ typesRepeated
                         \/ Len(os) > Cardinality(named)
                         \/ named \cap typesOffered # {})
                  /\ typesOffered' = typesOffered \cup named
                  /\ UNCHANGED <<types_pc, csvfile, region_idx, typesFailed,
                                 typesLastFailed>>
         ELSE /\ TypesResume(TypesExcept(o), TRUE)
              /\ UNCHANGED <<types_page, typesOffered, typesRepeated>>
    /\ UNCHANGED <<regions_list, reconcilerVars, optimizerVars>>

\* Line 27 and lines 46-49: the pages are exhausted, the sorted list is
\* returned and its rows are written.
TypesReturn ==
    /\ types_pc = "paging"
    /\ TypesResume([escaped |-> FALSE, types |-> sorted_list(instance_types)], FALSE)
    /\ UNCHANGED <<regions_list, types_page, typesOffered, typesRepeated,
                   reconcilerVars, optimizerVars>>

\* The with block ends, line 49.
TypesClose ==
    /\ types_pc = "loop"
    /\ region_idx > Len(regions_list)
    /\ types_pc' = "done"
    /\ UNCHANGED <<regions_list, region_idx, csvfile, instance_types, typesFailed,
                   typesOffered, typesRepeated, typesLastFailed, types_page,
                   reconcilerVars, optimizerVars>>

NextTypes ==
    \/ TypesOpen
    \/ TypesBegin
    \/ TypesPage
    \/ TypesReturn
    \/ TypesClose

SpecTypes == Init /\ [][NextTypes]_vars

\* The place of each instance type in the alphabetical list of InstanceTypes.
TypeRank(t) == CASE t = "c5.large" -> 1 [] t = "m5.large" -> 2 [] t = "t2.micro" -> 3

NoRepeats(seq) == \A i, j \in 1..Len(seq) : i < j => seq[i] # seq[j]

\* C11: the list get_instance_types returns is strictly ascending, so no type
\* stands in it twice; it holds exactly the types the pages offered, or
\* nothing when the query failed. For a region list without repeats no two
\* rows of the CSV are equal, the rows of a region are ascending, a region
\* whose query failed has no row, and a failed query never ends the run:
\* every listed region is processed.
C11_NoTypeRepeats ==
    /\ types_pc # "paging" =>
          \A i, j \in 1..Len(instance_types) :
             i < j => TypeRank(instance_types[i]) < TypeRank(instance_types[j])
    /\ typesLastFailed => instance_types = <<>>
    /\ (types_pc \in {"loop", "done"} /\ region_idx > 1 /\ ~typesLastFailed)
          => {instance_types[i] : i \in 1..Len(instance_types)} = typesOffered
    /\ NoRepeats(regions_list) =>
         /\ NoRepeats(csvfile)
         /\ \A i, j \in 1..Len(csvfile) :
               (i < j /\ 1 < i /\ csvfile[i][1] = csvfile[j][1])
                  => TypeRank(csvfile[i][2]) < TypeRank(csvfile[j][2])
         /\ \A i \in 1..Len(csvfile) : csvfile[i][1] \notin typesFailed
    /\ types_pc = "crashed" => (region_idx = 0 /\ csvfile = <<>>)
    /\ types_pc = "done" => region_idx = Len(regions_list) + 1

C11_Witness ==
    /\ types_pc = "done"
    /\ regions_list = <<"eu-west-1", "us-east-1">>
    /\ typesFailed = {"eu-west-1"}
    /\ typesRepeated /\ types_page = MaxTypePages
    /\ instance_types = <<"t2.micro">>
    /\ csvfile = <<HeaderRow, <<"us-east-1", "t2.micro">>>>

(***************************************************************************)
(* The optimizer script (src/answer5.py): four queries for idle resources, *)
(* each behind its own try, and a report with a summary of the four list   *)
(* lengths. The three lists of instances and functions are kept as their   *)
(* lengths and the values on their report lines are left out; the bucket   *)
(* list is kept whole.                                                     *)
(***************************************************************************)
MaxFound == 1
MaxS3Buckets == 2

Rule50Eq == "=================================================="
Rule30 == "------------------------------"

BucketNames == {"logs", "media"}
Bucket(name) == [Name |-> name, CreationDate |-> "2024-01-01"]

\* list_buckets answers with the Buckets list and the Owner.
ListBucketsResponses ==
    {[Buckets |-> bs, Owner |-> "owner"] :
        bs \in BoundedSeq({Bucket(n) : n \in BucketNames}, MaxS3Buckets)}

\* What the calls of the inner try find for one bucket: no Contents, no
\* datapoints, datapoints, or an exception from one of the two calls.
BucketChecks ==
    {[found |-> f, exc |-> NoExc] : f \in {"empty", "stale", "used"}}
      \cup {[found |-> "raised", exc |-> e] : e \in Excs}

\* Outcomes of the calls get_unused_s3_buckets makes: list_buckets raises, or
\* answers, and then checks[i] is what the inner try finds for bucket i.
S3Outcomes ==
    {[exc |-> e, response |-> [Buckets |-> <<>>, Owner |-> "owner"], checks |-> <<>>] :
        e \in Excs}
      \cup UNION {{[exc |-> NoExc, response |-> resp, checks |-> cs] :
                      cs \in [1..Len(resp.Buckets) -> BucketChecks]} :
                    resp \in ListBucketsResponses}

\* d[k] on a dict raises KeyError(k) when k is not a key; str(e) is repr(k).
KeyError(k) == [type |-> "KeyError", code |-> "", message |-> "", text |-> <<"'", k, "'">>]

BucketsFieldReal == "Buckets"

\* The key of line 128.
BucketsField == "XXXXXXX"

\* except Exception, lines 50, 86, 120, 162 and 167.
OptimizerHandlers == <<"Exception">>

UnusedBucket(bucket, reason) ==
    [BucketName |-> bucket.Name, CreationDate |-> bucket.CreationDate, Reason |-> reason]

\* The loop of lines 130-164: the entries appended, the lines printed, the
\* number of buckets whose inner try ran to its end, and the exception that
\* left the loop, if any.
RECURSIVE InspectBuckets(_, _, _)
InspectBuckets(buckets, checks, acc) ==
    IF buckets = <<>> THEN acc
    ELSE LET b == Head(buckets)
             c == Head(checks)
             next ==
                CASE c.found = "empty" -> [acc EXCEPT !.unused = Append(@, UnusedBucket(b, "Empty bucket"))]
                  [] c.found = "stale" -> [acc EXCEPT !.unused = Append(@, UnusedBucket(b, "No recent access"))]
                  [] c.found = "used" -> acc
                  [] OTHER ->
                       IF Dispatch(OptimizerHandlers, c.exc) = 1
                       THEN [acc EXCEPT !.printed =
                               Append(@, Line(<<"Error checking bucket ", b.Name, ": ">> \o c.exc.text))]
                       ELSE [acc EXCEPT !.raised = c.exc]
         IN  IF next.raised # NoExc THEN next
             ELSE InspectBuckets(Tail(buckets), Tail(checks),
                                 [next EXCEPT !.inspected = @ + 1])

\* Lines 167-169.
S3Except(e) ==
    [unused |-> <<>>, printed |-> <<Line(<<"Error checking S3 buckets: ">> \o e.text)>>,
     inspected |-> 0, escaped |-> Dispatch(OptimizerHandlers, e) # 1]

\* Lines 124-169.
get_unused_s3_buckets(o) ==
    IF o.exc # NoExc THEN S3Except(o.exc)
    ELSE IF BucketsField \notin DOMAIN o.response THEN S3Except(KeyError(BucketsField))
    ELSE LET r == InspectBuckets(o.response[BucketsField], o.checks,
                                 [unused |-> <<>>, printed |-> <<>>,
                                  inspected |-> 0, raised |-> NoExc])
         IN  IF r.raised # NoExc THEN S3Except(r.raised)
             ELSE [unused |-> r.unused, printed |-> r.printed,
                   inspected |-> r.inspected, escaped |-> FALSE]

\* Outcomes of one of the three other queries: it raises, or it returns a
\* list of n entries.
QueryOutcomes ==
    {[exc |-> e, n |-> 0] : e \in Excs} \cup {[exc |-> NoExc, n |-> n] : n \in 0..MaxFound}

\* The lines one of the three other queries prints (lines 51, 87, 121).
QueryPrinted(prefix, o) ==
    IF o.exc # NoExc /\ Dispatch(OptimizerHandlers, o.exc) = 1
    THEN <<Line(<<prefix>> \o o.exc.text)>>
    ELSE <<>>

\* The block main prints for each entry of a list: one line for each label
\* and a rule.
RECURSIVE EntryBlocks(_, _)
EntryBlocks(labels, n) ==
    IF n = 0 THEN <<>>
    ELSE [i \in 1..Len(labels) |-> Line(<<labels[i]>>)] \o <<Line(<<Rule30>>)>>
           \o EntryBlocks(labels, n - 1)

\* Lines 208-212.
BucketBlocks(buckets) ==
    [k \in 1..(4 * Len(buckets)) |->
        LET b == buckets[((k - 1) \div 4) + 1]
            f == (k - 1) % 4
        IN  CASE f = 0 -> Line(<<"Bucket: ", b.BucketName>>)
              [] f = 1 -> Line(<<"Creation Date: ", b.CreationDate>>)
              [] f = 2 -> Line(<<"Reason: ", b.Reason>>)
              [] OTHER -> Line(<<Rule30>>)]

\* Lines 172-175: the five clients are made outside any try.
OptStart ==
    /\ opt_pc = "start"
    /\ \E e \in Excs \cup {NoExc} :
         IF e = NoExc
         THEN /\ opt_pc' = "ec2"
              /\ console' = <<Line(<<"\nAWS Resource Optimization Report">>), Line(<<Rule50Eq>>)>>
         ELSE /\ opt_pc' = "crashed"
              /\ UNCHANGED console
    /\ UNCHANGED <<low_util_ec2, idle_rds, unused_lambdas, unused_buckets,
                   s3Outcome, s3Listed, s3Inspected, reconcilerVars, typesVars>>

\* Lines 177-185 and 14-52.
OptEC2 ==
    /\ opt_pc = "ec2"
    /\ \E o \in QueryOutcomes :
         /\ low_util_ec2' = o.n
         /\ console' = console
               \o <<Line(<<"\nEC2 Instances with Low CPU Utilization (<10%):">>), Line(<<Rule50>>)>>
               \o QueryPrinted("Error checking EC2 utilization: ", o)
               \o EntryBlocks(<<"Instance ID: ", "Name: ", "Type: ", "Average CPU: ">>, o.n)
    /\ opt_pc' = "rds"
    /\ UNCHANGED <<idle_rds, unused_lambdas, unused_buckets,
                   s3Outcome, s3Listed, s3Inspected, reconcilerVars, typesVars>>

\* Lines 187-194 and 54-88.
OptRDS ==
    /\ opt_pc = "rds"
    /\ \E o \in QueryOutcomes :
         /\ idle_rds' = o.n
         /\ console' = console
               \o <<Line(<<"\nIdle RDS Instances (No connections in 7 days):">>), Line(<<Rule50>>)>>
               \o QueryPrinted("Error checking RDS utilization: ", o)
               \o EntryBlocks(<<"Instance: ", "Engine: ", "Class: ">>, o.n)
    /\ opt_pc' = "lambda"
    /\ UNCHANGED <<low_util_ec2, unused_lambdas, unused_buckets,
                   s3Outcome, s3Listed, s3Inspected, reconcilerVars, typesVars>>

\* Lines 196-203 and 90-122.
OptLambda ==
    /\ opt_pc = "lambda"
    /\ \E o \in QueryOutcomes :
         /\ unused_lambdas' = o.n
         /\ console' = console
               \o <<Line(<<"\nUnused Lambda Functions (No invocations in 30 days):">>), Line(<<Rule50>>)>>
               \o QueryPrinted("Error checking Lambda utilization: ", o)
               \o EntryBlocks(<<"Function: ", "Runtime: ", "Last Modified: ">>, o.n)
    /\ opt_pc' = "s3"
    /\ UNCHANGED <<low_util_ec2, idle_rds, unused_buckets,
                   s3Outcome, s3Listed, s3Inspected, reconcilerVars, typesVars>>

\* Lines 205-212 and 124-169.
OptS3 ==
    /\ opt_pc = "s3"
    /\ \E o \in S3Outcomes :
         LET r == get_unused_s3_buckets(o)
         IN  /\ opt_pc' = IF r.escaped THEN "crashed" ELSE "summary"
             /\ unused_buckets' = r.unused
             /\ console' = console
                   \o <<Line(<<"\nUnused S3 Buckets:">>), Line(<<Rule50>>)>>
                   \o r.printed \o BucketBlocks(r.unused)
             /\ s3Outcome' = IF o.exc # NoExc THEN "raised" ELSE "listed"
             /\ s3Listed' = o.response.Buckets
             /\ s3Inspected' = r.inspected
    /\ UNCHANGED <<low_util_ec2, idle_rds, unused_lambdas, reconcilerVars, typesVars>>

\* Lines 214-219.
OptSummary ==
    /\ opt_pc = "summary"
    /\ console' = console
          \o << Line(<<"\nSummary:">>), Line(<<Rule50Eq>>),
                CountLine("Low Utilization EC2 Instances: ", low_util_ec2),
                CountLine("Idle RDS Instances: ", idle_rds),
                CountLine("Unused Lambda Functions: ", unused_lambdas),
                CountLine("Unused S3 Buckets: ", Len(unused_buckets)) >>
    /\ opt_pc' = "done"
    /\ UNCHANGED <<low_util_ec2, idle_rds, unused_lambdas, unused_buckets,
                   s3Outcome, s3Listed, s3Inspected, reconcilerVars, typesVars>>

NextOptimizer ==
    \/ OptStart
    \/ OptEC2
    \/ OptRDS
    \/ OptLambda
    \/ OptS3
    \/ OptSummary

SpecOptimizer == Init /\ [][NextOptimizer]_vars

S3Reported == opt_pc \in {"summary", "done"}

ConsoleHas(l) == \E i \in 1..Len(console) : console[i] = l

\* C13: get_unused_s3_buckets always takes its failure path. Whenever
\* list_buckets has answered with its Buckets list, the lookup of line 128 has
\* failed: no bucket was inspected, the KeyError was printed and not raised,
\* the list returned is empty and no bucket is reported; the summary then
\* counts 0 unused S3 buckets whatever buckets exist.
C13_S3AlwaysFails ==
    /\ s3Outcome # "none" =>
         /\ opt_pc # "crashed"
         /\ unused_buckets = <<>>
         /\ s3Inspected = 0
         /\ \A i \in 1..Len(console) : Head(console[i].text) # "Bucket: "
    /\ s3Outcome = "listed" =>
         ConsoleHas(Line(<<"Error checking S3 buckets: ", "'", "XXXXXXX", "'">>))
    /\ opt_pc = "done" =>
         console[Len(console)] = CountLine("Unused S3 Buckets: ", 0)

C13_Witness ==
    /\ opt_pc = "done"
    /\ s3Outcome = "listed"
    /\ Len(s3Listed) = MaxS3Buckets
    /\ low_util_ec2 = MaxFound
    /\ unused_buckets = <<>>
    /\ ConsoleHas(CountLine("Unused S3 Buckets: ", 0))
====
